---- MODULE Spec2Model ----
(***************************************************************************)
(* pierce-monitor: the scraper's retry controller (exponentialBackoff),    *)
(* the scrape pipeline of the S3 variant and of the local-file variant     *)
(* (scrape.js), and the pure helpers they call.                            *)
(*                                                                         *)
(* One behaviour is one invocation of exports.handler.  An action is one   *)
(* run-to-completion step of the JavaScript event loop: the code between   *)
(* two awaits (or a timer / I/O callback), with everything it calls.       *)
(***************************************************************************)
EXTENDS Integers, Sequences, FiniteSets, TLC

VARIABLES
    variant,        \* "s3" (the Lambda with the S3 store) or "local" (scrape.js)
    pc,             \* what the handler is waiting for
    store,          \* the persisted object: S3 floor-plans.json / the local file
    max,            \* exponentialBackoff's parameter max of the current call
    delay,          \* exponentialBackoff's parameter delay of the current call
    floorPlans,     \* scrape: the parsed snapshot
    oldFloorPlans,  \* scrape: the loaded snapshot (module constant in scrape.js)
    newChanges,     \* scrape: truthiness of jsonDiff.diff(oldFloorPlans, floorPlans)
    message,        \* params.Message of the last sns.publish
    result,         \* value scrape resolved with
    writeState,     \* scrape.js: fs.writeFile started by log()
    publishState,   \* scrape.js: sns.publish started by publishToSNS()
    \* ---- history (observations of the run, never read by the program) ----
    max0,           \* the max the first call of exponentialBackoff was given
    delay0,         \* the delay the first call of exponentialBackoff was given
    toTryCalls,     \* number of toTry() invocations
    falseResults,   \* number of toTry() results that were false
    nextTrue,       \* number of next(true) calls
    nextFalse,      \* number of next(false) calls
    waits,          \* the delays handed to setTimeout, in order
    steps,          \* the pipeline steps of the current attempt, in start order
    loadOk,         \* the current attempt's getObject + JSON.parse succeeded
    storeAtStart,   \* store when the current attempt started
    prev,           \* summary of the previous attempt
    saves,          \* number of successful puts in this invocation
    notified,       \* snapshots whose SNS publish succeeded in this invocation
    running,        \* number of toTry() executions in progress
    timers,         \* number of pending setTimeout callbacks
    \* ---- the pure helpers applied to drawn inputs (specification SpecPure) ----
    fpaArg,         \* argument of parseFloorPlanAvailability
    fpaRes,         \* its result
    moneyArg,       \* argument of formatMoney
    moneyRes,       \* its result
    smsArg,         \* argument of formatFloorPlansForSMS
    smsRes          \* its result

progVars == <<variant, pc, store, max, delay, floorPlans, oldFloorPlans,
              newChanges, message, result, writeState, publishState, max0,
              delay0, toTryCalls, falseResults, nextTrue, nextFalse, waits,
              steps, loadOk, storeAtStart, prev, saves, notified, running,
              timers>>

pureVars == <<fpaArg, fpaRes, moneyArg, moneyRes, smsArg, smsRes>>

vars == <<progVars, pureVars>>

(***************************************************************************)
(* Bounds and program constants                                            *)
(***************************************************************************)
SECONDS == 1000

\* largest max given to exponentialBackoff
MaxArg == 5

\* toTry invocations explored in one run (the timer stops firing there)
MaxAttempts == 8

MainDelay == 30 * SECONDS

\* most .avail-row elements in an availability block given to the parser
MaxRows == 4

\* prices 0..MaxPrice are given to formatMoney, and a few longer ones
MaxPrice == 1100

\* most floor plans in a snapshot given to formatFloorPlansForSMS
MaxPlans == 3

Delays == {1, MainDelay}

(***************************************************************************)
(* Data model: documents, snapshots, stored bodies                         *)
(***************************************************************************)
\* JavaScript null for floorPlan.availability, and an array of units
Null == [isNull |-> TRUE, units |-> <<>>]

Units(us) == [isNull |-> FALSE, units |-> us]

\* an .avail-row element: the texts of its three .right cells
Row(u, d, p) == [unit |-> u, date |-> d, price |-> p]

TemplateRow == Row("", "", 0)

\* an .accordionsub-content element
Block(np, rows) == [noPlansText |-> np, rows |-> rows]

\* a floor-plan entry: the .accordionsub-toggle text and the availability block
Section(tokens, sqft, block) == [tokens |-> tokens, sqft |-> sqft, block |-> block]

HeadA == <<"A1", "Studio", "extra">>

HeadB == <<"B2">>

Doc(ok, secs) == [loadable |-> ok, sections |-> secs]

DocEmpty == Doc(TRUE, <<>>)

DocNoPlans == Doc(TRUE, <<Section(HeadA, "500", Block(TRUE, <<TemplateRow>>))>>)

DocTemplateOnly == Doc(TRUE, <<Section(HeadA, "500", Block(FALSE, <<TemplateRow>>))>>)

DocTwoUnits ==
    Doc(TRUE, <<Section(HeadA, "500",
                  Block(FALSE, <<TemplateRow, Row("101", "Now", 1500),
                                 Row("102", "6/1", 12345)>>)),
                Section(HeadB, "700", Block(TRUE, <<>>))>>)

\* the same two units listed in the other order
DocTwoUnitsSwapped ==
    Doc(TRUE, <<Section(HeadA, "500",
                  Block(FALSE, <<TemplateRow, Row("102", "6/1", 12345),
                                 Row("101", "Now", 1500)>>)),
                Section(HeadB, "700", Block(TRUE, <<>>))>>)

DocBad == Doc(FALSE, <<>>)

\* what axios.get(config.SITE_URL) may resolve with
Docs == {DocEmpty, DocNoPlans, DocTemplateOnly, DocTwoUnits, DocTwoUnitsSwapped,
         DocBad}

Min(a, b) == IF a < b THEN a ELSE b

parseFloorPlanInfo(sec) ==
    [name |-> SubSeq(sec.tokens, 1, Min(2, Len(sec.tokens))),
     square_footage |-> sec.sqft]

\* mutant: the templating row is not skipped
parseFloorPlanAvailabilityKeepsTemplate(block) ==
    IF block.noPlansText THEN Null
    ELSE IF Len(block.rows) < 2 THEN Null
    ELSE Units([i \in 1..Len(block.rows) |->
                  [unit |-> block.rows[i].unit,
                   available_on |-> block.rows[i].date,
                   price |-> block.rows[i].price]])

parseFloorPlanAvailability(block) ==
    IF block.noPlansText THEN Null
    ELSE IF Len(block.rows) < 2 THEN Null
    ELSE Units([i \in 1..(Len(block.rows) - 1) |->
                  [unit |-> block.rows[i + 1].unit,
                   available_on |-> block.rows[i + 1].date,
                   price |-> block.rows[i + 1].price]])

\* threw: cheerio.load could not load the document
parseFloorPlans(doc) ==
    IF ~doc.loadable THEN [threw |-> TRUE, value |-> <<>>]
    ELSE [threw |-> FALSE,
          value |-> [i \in 1..Len(doc.sections) |->
                       [name |-> parseFloorPlanInfo(doc.sections[i]).name,
                        square_footage |->
                            parseFloorPlanInfo(doc.sections[i]).square_footage,
                        availability |->
                            parseFloorPlanAvailability(doc.sections[i].block)]]]

Snapshots == {parseFloorPlans(d).value : d \in {x \in Docs : x.loadable}}

\* the body of the stored object
JSONstringify(s) == [kind |-> "json", val |-> s]

Missing == [kind |-> "missing", val |-> <<>>]

Garbage == [kind |-> "garbage", val |-> <<>>]

Bodies == {Missing, Garbage} \cup {JSONstringify(s) : s \in Snapshots}

JSONparse(body) ==
    IF body.kind = "json" THEN [threw |-> FALSE, value |-> body.val]
    ELSE [threw |-> TRUE, value |-> <<>>]

\* mutant: compares the units as sets, blind to their order
SameUnordered(a, b) ==
    /\ Len(a) = Len(b)
    /\ \A i \in 1..Len(a) :
          /\ a[i].name = b[i].name
          /\ a[i].square_footage = b[i].square_footage
          /\ a[i].availability.isNull = b[i].availability.isNull
          /\ {a[i].availability.units[j] : j \in 1..Len(a[i].availability.units)}
                = {b[i].availability.units[j] : j \in 1..Len(b[i].availability.units)}

jsonDiffOrderInsensitive(a, b) == ~SameUnordered(a, b)

\* mutant: an empty baseline counts as no change
jsonDiffIgnoresEmptyBaseline(a, b) == a # b /\ a # <<>>

\* truthiness of jsonDiff.diff(a, b): undefined exactly when a and b are
\* structurally equal
jsonDiff(a, b) == a # b

(***************************************************************************)
(* Notifier: formatMoney and formatFloorPlansForSMS                        *)
(* A string is a sequence of one-character strings; a message is a         *)
(* sequence of lines, a line a sequence of text pieces.                    *)
(***************************************************************************)
DigitChars == <<"0", "1", "2", "3", "4", "5", "6", "7", "8", "9">>

IsDigit(c) == \E d \in 1..10 : DigitChars[d] = c

RECURSIVE Digits(_)
Digits(n) == IF n < 10 THEN <<DigitChars[n + 1]>>
             ELSE Append(Digits(n \div 10), DigitChars[(n % 10) + 1])

\* Number(price).toFixed(0) of a non-negative integer: its digits, no point
toFixed0(price) == Digits(price)

\* the regular expression /\d(?=(\d{3})+\.)/ matches s[i]
MoneyRegexMatches(s, i) ==
    /\ IsDigit(s[i])
    /\ \E k \in 1..Len(s) :
          /\ i + 3 * k + 1 <= Len(s)
          /\ \A j \in (i + 1)..(i + 3 * k) : IsDigit(s[j])
          /\ s[i + 3 * k + 1] = "."

RECURSIVE Flatten(_)
Flatten(ss) == IF ss = <<>> THEN <<>> ELSE Head(ss) \o Flatten(Tail(ss))

\* .replace(re, '$&,') with the g flag: a comma after every matching digit
replaceMoney(s) ==
    Flatten([i \in 1..Len(s) |->
               IF MoneyRegexMatches(s, i) THEN <<s[i], ",">> ELSE <<s[i]>>])

formatMoney(price) == replaceMoney(toFixed0(price))

EmptyLine == <<>>

HeaderLine(fp) == fp.name \o <<" (sq. ft. ", fp.square_footage, ")">>

UnitLine(u) ==
    <<"Unit #", u.unit, " is available ", u.available_on, " for $">>
        \o formatMoney(u.price)

PlanBlock(fp) ==
    <<HeaderLine(fp)>>
        \o [i \in 1..Len(fp.availability.units) |-> UnitLine(fp.availability.units[i])]
        \o <<EmptyLine>>

\* mutant: no filter on plan.availability
formatFloorPlansForSMSNoFilter(fps) ==
    <<EmptyLine>> \o Flatten([i \in 1..Len(fps) |-> PlanBlock(fps[i])])

formatFloorPlansForSMS(fps) ==
    <<EmptyLine>>
        \o Flatten([i \in 1..Len(fps) |->
                      IF fps[i].availability.isNull THEN <<>> ELSE PlanBlock(fps[i])])

(***************************************************************************)
(* Collaborator wrappers: what each async helper resolves or rejects with  *)
(***************************************************************************)
\* grabHTML rethrows the rejection of axios.get
grabHTML(getOk, doc) == [threw |-> ~getOk, value |-> doc]

\* mutant: the catch block rethrows, as grabHTML's does
getOldFloorPlansRethrows(getOk, body) ==
    IF getOk /\ body.kind = "json"
    THEN [threw |-> FALSE, value |-> body.val]
    ELSE [threw |-> TRUE, value |-> <<>>]

\* getOldFloorPlans catches every error of getObject and of JSON.parse and
\* returns [] instead
getOldFloorPlans(getOk, body) ==
    IF getOk /\ ~JSONparse(body).threw
    THEN [threw |-> FALSE, value |-> JSONparse(body).value]
    ELSE [threw |-> FALSE, value |-> <<>>]

\* mutant: the catch block only logs, as getOldFloorPlans's does
publishUpdatedFloorPlansSwallows(putOk) == [threw |-> FALSE]

\* publishUpdatedFloorPlans rethrows the rejection of putObject
publishUpdatedFloorPlans(putOk) == [threw |-> ~putOk]

\* publishToSNS (S3 variant) awaits publish(...).promise() and rethrows
publishToSNS(pubOk) == [threw |-> ~pubOk]

\* mutant: save and notify whatever the diff says
AlwaysPublish(changes) == TRUE

\* scrape: if (newChanges) { save; notify }
ShouldPublish(changes) == changes

\* mutant: the catch block returns true
CatchReturnsTrue == TRUE

\* scrape: catch (error) { ...; return false }
CatchResult == FALSE

\* mutant: gives up one attempt early
GiveUpOffByOne(m) == m <= 1

\* exponentialBackoff: if (max <= 0) next(false)
GiveUp(m) == m <= 0

\* mutant: waits the doubled delay that the debug line announces
TimeoutArgDoubled(d) == d * 2

\* exponentialBackoff: the second argument of setTimeout
TimeoutArg(d) == d

\* exponentialBackoff: the arguments of the recursive call
\* mutant: the counter is decremented twice
NextMaxSkips(m) == m - 2

NextMax(m) == m - 1

NextDelay(d) == d * 2

\* mutant: a second setTimeout in the give-up path
SetTimeoutCallsTwice(res) == IF res THEN 0 ELSE 2

\* exponentialBackoff: how many setTimeout calls follow a toTry result
SetTimeoutCalls(res) == IF res THEN 0 ELSE 1

\* mutant: the try block ends without returning true
ScrapeReturnMissing == FALSE

\* scrape: the "return true" that ends the try block
ScrapeReturn == TRUE

(***************************************************************************)
(* Steps of an attempt (history)                                           *)
(***************************************************************************)
Step(op, status, snap) == [op |-> op, status |-> status, snap |-> snap]

Done(ss, status) == [ss EXCEPT ![Len(ss)].status = status]

NoPrev == [valid |-> FALSE, saveFailed |-> FALSE, notifyFailed |-> FALSE,
           saveOk |-> FALSE, floorPlans |-> <<>>, loadOk |-> FALSE,
           newChanges |-> FALSE, result |-> FALSE]

StepStatus(ss, op) ==
    IF \E i \in 1..Len(ss) : ss[i].op = op
    THEN (CHOOSE st \in {ss[i].status : i \in {j \in 1..Len(ss) : ss[j].op = op}} : TRUE)
    ELSE "none"

Summary ==
    [valid |-> TRUE,
     saveFailed |-> StepStatus(steps, "save") = "fail",
     notifyFailed |-> StepStatus(steps, "notify") = "fail",
     saveOk |-> StepStatus(steps, "save") = "ok",
     floorPlans |-> floorPlans, loadOk |-> loadOk,
     newChanges |-> newChanges, result |-> result]

(***************************************************************************)
(* State machine                                                           *)
(***************************************************************************)
\* no pure helper has been applied
PureIdle ==
    /\ fpaArg = Block(TRUE, <<>>)
    /\ fpaRes = Null
    /\ moneyArg = 0
    /\ moneyRes = <<>>
    /\ smsArg = <<>>
    /\ smsRes = <<>>

Init ==
    /\ variant \in {"s3", "local"}
    /\ pc = "init"
    \* scrape.js require()s floor-plans.json when the handler starts, which
    \* needs the file to exist and hold JSON
    /\ store \in IF variant = "s3" THEN Bodies
                 ELSE {JSONstringify(sn) : sn \in Snapshots}
    /\ max0 \in 0..MaxArg
    /\ delay0 \in Delays
    /\ max = max0
    /\ delay = delay0
    /\ floorPlans = <<>>
    /\ oldFloorPlans = IF variant = "s3" THEN <<>> ELSE JSONparse(store).value
    /\ newChanges = FALSE
    /\ message = <<>>
    /\ result = FALSE
    /\ writeState = "none"
    /\ publishState = "none"
    /\ toTryCalls = 0
    /\ falseResults = 0
    /\ nextTrue = 0
    /\ nextFalse = 0
    /\ waits = <<>>
    /\ steps = <<>>
    /\ loadOk = FALSE
    /\ storeAtStart = store
    /\ prev = NoPrev
    /\ saves = 0
    /\ notified = {}
    /\ running = 0
    /\ timers = 0
    /\ PureIdle

\* exponentialBackoff(toTry, m, d, next) up to its await: toTry = scrape runs
\* up to its first await, of axios.get
CallToTry(m, d) ==
    /\ max' = m
    /\ delay' = d
    /\ pc' = "axios"
    /\ toTryCalls' = toTryCalls + 1
    /\ steps' = <<Step("fetch", "run", <<>>)>>
    /\ storeAtStart' = store
    /\ floorPlans' = <<>>
    /\ oldFloorPlans' = IF variant = "s3" THEN <<>> ELSE oldFloorPlans
    /\ newChanges' = FALSE
    /\ loadOk' = FALSE
    /\ prev' = IF toTryCalls = 0 THEN NoPrev ELSE Summary
    /\ running' = running + 1
    /\ UNCHANGED <<variant, store, message, result, writeState, publishState,
                   max0, delay0, falseResults, nextTrue, nextFalse, waits,
                   saves, notified>>
    /\ UNCHANGED pureVars

\* main: exponentialBackoff(scrape, max0, delay0, callback)
Main ==
    /\ pc = "init"
    /\ CallToTry(max0, delay0)
    /\ UNCHANGED timers

\* scrape's catch block: the attempt resolves with false
Catch(ss) ==
    /\ steps' = ss
    /\ result' = CatchResult
    /\ pc' = "returned"
    /\ running' = running - 1

\* S3 variant: axios.get settles; scrape parses and starts getOldFloorPlans
AxiosSettleS3 ==
    /\ variant = "s3"
    /\ pc = "axios"
    /\ \E getOk \in BOOLEAN, doc \in Docs :
          LET g == grabHTML(getOk, doc)
              p == parseFloorPlans(g.value)
          IN  IF g.threw
              THEN Catch(Done(steps, "fail")) /\ UNCHANGED floorPlans
              ELSE IF p.threw
              THEN /\ Catch(Append(Done(steps, "ok"), Step("parse", "fail", <<>>)))
                   /\ UNCHANGED floorPlans
              ELSE /\ floorPlans' = p.value
                   /\ steps' = Done(steps, "ok")
                                 \o <<Step("parse", "ok", <<>>), Step("load", "run", <<>>)>>
                   /\ pc' = "s3get"
                   /\ UNCHANGED <<result, running>>
    /\ UNCHANGED <<variant, store, max, delay, oldFloorPlans, newChanges, message,
                   writeState, publishState, max0, delay0, toTryCalls,
                   falseResults, nextTrue, nextFalse, waits, loadOk,
                   storeAtStart, prev, saves, notified>>
    /\ UNCHANGED <<timers, pureVars>>

\* S3 variant: getObject settles; scrape diffs and, on a change, starts the put
S3GetSettle ==
    /\ variant = "s3"
    /\ pc = "s3get"
    /\ \E getOk \in BOOLEAN :
          LET o == getOldFloorPlans(getOk, store)
              ch == jsonDiff(o.value, floorPlans)
          IN  IF o.threw
              THEN /\ Catch(Done(steps, "fail"))
                   /\ UNCHANGED <<oldFloorPlans, newChanges, loadOk>>
              ELSE /\ oldFloorPlans' = o.value
                   /\ newChanges' = ch
                   /\ loadOk' = (getOk /\ ~JSONparse(store).threw)
                   /\ IF ShouldPublish(ch)
                      THEN /\ steps' = Done(steps, "ok")
                                         \o <<Step("diff", "ok", <<>>),
                                              Step("save", "run", floorPlans)>>
                           /\ pc' = "s3put"
                           /\ UNCHANGED <<result, running>>
                      ELSE /\ steps' = Append(Done(steps, "ok"), Step("diff", "ok", <<>>))
                           /\ result' = ScrapeReturn
                           /\ pc' = "returned"
                           /\ running' = running - 1
    /\ UNCHANGED <<variant, store, max, delay, floorPlans, message, writeState,
                   publishState, max0, delay0, toTryCalls, falseResults,
                   nextTrue, nextFalse, waits, storeAtStart, prev, saves,
                   notified>>
    /\ UNCHANGED <<timers, pureVars>>

\* S3 variant: putObject settles; scrape formats the message and starts publish
S3PutSettle ==
    /\ variant = "s3"
    /\ pc = "s3put"
    /\ \E putOk \in BOOLEAN :
          /\ store' = IF putOk THEN JSONstringify(floorPlans) ELSE store
          /\ saves' = IF putOk THEN saves + 1 ELSE saves
          /\ IF publishUpdatedFloorPlans(putOk).threw
             THEN Catch(Done(steps, "fail")) /\ UNCHANGED message
             ELSE /\ steps' = Append(Done(steps, IF putOk THEN "ok" ELSE "fail"),
                                     Step("notify", "run", floorPlans))
                  /\ message' = formatFloorPlansForSMS(floorPlans)
                  /\ pc' = "sns"
                  /\ UNCHANGED <<result, running>>
    /\ UNCHANGED <<variant, max, delay, floorPlans, oldFloorPlans, newChanges,
                   writeState, publishState, max0, delay0, toTryCalls,
                   falseResults, nextTrue, nextFalse, waits, loadOk,
                   storeAtStart, prev, notified>>
    /\ UNCHANGED <<timers, pureVars>>

\* S3 variant: publish settles; scrape returns
S3PublishSettle ==
    /\ variant = "s3"
    /\ pc = "sns"
    /\ \E pubOk \in BOOLEAN :
          /\ notified' = IF pubOk THEN notified \cup {floorPlans} ELSE notified
          /\ IF publishToSNS(pubOk).threw
             THEN Catch(Done(steps, "fail"))
             ELSE /\ steps' = Done(steps, IF pubOk THEN "ok" ELSE "fail")
                  /\ result' = ScrapeReturn
                  /\ pc' = "returned"
                  /\ running' = running - 1
    /\ UNCHANGED <<variant, store, max, delay, floorPlans, oldFloorPlans,
                   newChanges, message, writeState, publishState, max0, delay0,
                   toTryCalls, falseResults, nextTrue, nextFalse, waits, loadOk,
                   storeAtStart, prev, saves>>
    /\ UNCHANGED <<timers, pureVars>>

\* scrape.js: axios.get settles; scrape parses, diffs against the snapshot
\* require()d at start and, on a change, calls log and publishToSNS.  log
\* awaits the undefined that callback-style fs.writeFile returns and
\* publishToSNS awaits the AWS.Request that callback-style sns.publish returns,
\* which is no promise: both awaits resume in microtasks, before any I/O
\* callback can run, so scrape returns true in the same turn of the loop.
AxiosSettleLocal ==
    /\ variant = "local"
    /\ pc = "axios"
    /\ \E getOk \in BOOLEAN, doc \in Docs :
          LET g == grabHTML(getOk, doc)
              p == parseFloorPlans(g.value)
              ch == jsonDiff(oldFloorPlans, p.value)
          IN  IF g.threw
              THEN /\ Catch(Done(steps, "fail"))
                   /\ UNCHANGED <<floorPlans, newChanges, message, writeState,
                                  publishState>>
              ELSE IF p.threw
              THEN /\ Catch(Append(Done(steps, "ok"), Step("parse", "fail", <<>>)))
                   /\ UNCHANGED <<floorPlans, newChanges, message, writeState,
                                  publishState>>
              ELSE /\ floorPlans' = p.value
                   /\ newChanges' = ch
                   /\ result' = ScrapeReturn
                   /\ pc' = "returned"
                   /\ running' = running - 1
                   /\ IF ShouldPublish(ch)
                      THEN /\ steps' = Done(steps, "ok")
                                         \o <<Step("parse", "ok", <<>>),
                                              Step("diff", "ok", <<>>),
                                              Step("save", "run", p.value),
                                              Step("notify", "run", p.value)>>
                           /\ writeState' = "pending"
                           /\ publishState' = "pending"
                           /\ message' = formatFloorPlansForSMS(p.value)
                      ELSE /\ steps' = Done(steps, "ok")
                                         \o <<Step("parse", "ok", <<>>),
                                              Step("diff", "ok", <<>>)>>
                           /\ UNCHANGED <<message, writeState, publishState>>
    /\ UNCHANGED <<variant, store, max, delay, oldFloorPlans, max0, delay0,
                   toTryCalls, falseResults, nextTrue, nextFalse, waits, loadOk,
                   storeAtStart, prev, saves, notified>>
    /\ UNCHANGED <<timers, pureVars>>

\* scrape.js: the () => {} callback of fs.writeFile runs; an error is dropped
WriteFileCallback ==
    /\ variant = "local"
    /\ writeState = "pending"
    /\ pc = "done"
    /\ \E writeOk \in BOOLEAN :
          /\ writeState' = IF writeOk THEN "ok" ELSE "fail"
          /\ store' = IF writeOk THEN JSONstringify(floorPlans) ELSE store
          /\ saves' = IF writeOk THEN saves + 1 ELSE saves
    /\ UNCHANGED <<variant, pc, max, delay, floorPlans, oldFloorPlans,
                   newChanges, message, result, publishState, max0, delay0,
                   toTryCalls, falseResults, nextTrue, nextFalse, waits, steps,
                   loadOk, storeAtStart, prev, notified>>
    /\ UNCHANGED <<running, timers, pureVars>>

\* scrape.js: the callback of sns.publish runs; its throw reaches no catch of
\* scrape, which has returned
SNSCallback ==
    /\ variant = "local"
    /\ publishState = "pending"
    /\ pc = "done"
    /\ \E pubOk \in BOOLEAN :
          /\ publishState' = IF pubOk THEN "ok" ELSE "fail"
          /\ notified' = IF pubOk THEN notified \cup {floorPlans} ELSE notified
    /\ UNCHANGED <<variant, pc, store, max, delay, floorPlans, oldFloorPlans,
                   newChanges, message, result, writeState, max0, delay0,
                   toTryCalls, falseResults, nextTrue, nextFalse, waits, steps,
                   loadOk, storeAtStart, prev, saves>>
    /\ UNCHANGED <<running, timers, pureVars>>

\* exponentialBackoff after "await toTry()"
BackoffResume ==
    /\ pc = "returned"
    /\ IF result
       THEN /\ nextTrue' = nextTrue + 1
            /\ pc' = "done"
            /\ UNCHANGED <<nextFalse, waits, falseResults>>
       ELSE /\ nextFalse' = IF GiveUp(max) THEN nextFalse + 1 ELSE nextFalse
            /\ waits' = Append(waits, TimeoutArg(delay))
            /\ falseResults' = falseResults + 1
            /\ pc' = "timer"
            /\ UNCHANGED nextTrue
    /\ UNCHANGED <<variant, store, max, delay, floorPlans, oldFloorPlans,
                   newChanges, message, result, writeState, publishState, max0,
                   delay0, toTryCalls, steps, loadOk, storeAtStart, prev, saves,
                   notified>>
    /\ timers' = timers + SetTimeoutCalls(result)
    /\ UNCHANGED <<running, pureVars>>

\* the setTimeout callback: exponentialBackoff(toTry, --max, delay * 2, next)
TimerFire ==
    /\ pc = "timer"
    /\ timers > 0
    /\ toTryCalls < MaxAttempts
    /\ timers' = timers - 1
    /\ CallToTry(NextMax(max), NextDelay(delay))

Next ==
    \/ Main
    \/ AxiosSettleS3
    \/ S3GetSettle
    \/ S3PutSettle
    \/ S3PublishSettle
    \/ AxiosSettleLocal
    \/ WriteFileCallback
    \/ SNSCallback
    \/ BackoffResume
    \/ TimerFire

Spec == Init /\ [][Next]_vars

(***************************************************************************)
(* The pure helpers on drawn inputs: a behaviour is one application of one *)
(* helper to one input.                                                    *)
(***************************************************************************)
SeqsUpTo(S, n) == UNION {[1..k -> S] : k \in 0..n}

RowSet == {TemplateRow, Row("101", "Now", 1500), Row("102", "6/1", 12345)}

Blocks == {Block(np, rows) : np \in BOOLEAN, rows \in SeqsUpTo(RowSet, MaxRows)}

Prices == (0..MaxPrice) \cup {12345, 123456, 999999, 1000000, 1234567}

UnitA == [unit |-> "101", available_on |-> "Now", price |-> 1500]

UnitB == [unit |-> "102", available_on |-> "6/1", price |-> 12345]

PlanSet ==
    {[name |-> <<"A1", "Studio">>, square_footage |-> "500", availability |-> av] :
        av \in {Null, Units(<<UnitA>>), Units(<<UnitA, UnitB>>)}}
    \cup {[name |-> <<"B2">>, square_footage |-> "700", availability |-> Null]}

SmsInputs == SeqsUpTo(PlanSet, MaxPlans)

InitPure ==
    /\ Init
    /\ variant = "s3"
    /\ store = Missing
    /\ max0 = 0
    /\ delay0 = 1

ApplyParseFloorPlanAvailability ==
    /\ PureIdle
    /\ \E b \in Blocks :
          /\ fpaArg' = b
          /\ fpaRes' = parseFloorPlanAvailability(b)
    /\ UNCHANGED <<progVars, moneyArg, moneyRes, smsArg, smsRes>>

ApplyFormatMoney ==
    /\ PureIdle
    /\ \E price \in Prices :
          /\ moneyArg' = price
          /\ moneyRes' = formatMoney(price)
    /\ UNCHANGED <<progVars, fpaArg, fpaRes, smsArg, smsRes>>

ApplyFormatFloorPlansForSMS ==
    /\ PureIdle
    /\ \E fps \in SmsInputs :
          /\ smsArg' = fps
          /\ smsRes' = formatFloorPlansForSMS(fps)
    /\ UNCHANGED <<progVars, fpaArg, fpaRes, moneyArg, moneyRes>>

NextPure ==
    \/ ApplyParseFloorPlanAvailability
    \/ ApplyFormatMoney
    \/ ApplyFormatFloorPlansForSMS

SpecPure == InitPure /\ [][NextPure]_vars

(***************************************************************************)
(* Properties                                                              *)
(***************************************************************************)
RECURSIVE Pow2(_)
Pow2(n) == IF n = 0 THEN 1 ELSE 2 * Pow2(n - 1)

Order == <<"fetch", "parse", "load", "diff", "save", "notify">>

Failed(ss, ops) == \E i \in 1..Len(ss) : ss[i].op \in ops /\ ss[i].status = "fail"

Started(ss, op) == \E i \in 1..Len(ss) : ss[i].op = op

\* every toTry result so far was false
AlwaysFailedSoFar == nextTrue = 0 /\ ~(pc = "returned" /\ result)

\* C1: with a toTry that always returns false, next(false) is called exactly
\* once over the whole execution and next(true) never (stated as the claim
\* has it; the code keeps calling next(false) after every later failure).
C1_NextFalseExactlyOnce ==
    AlwaysFailedSoFar => (nextFalse <= 1 /\ nextTrue = 0)

\* C2: one call of exponentialBackoff invokes toTry at most max + 1 times
\* (stated as the claim has it; the code never stops retrying).
C2_AtMostMaxPlusOneCalls == toTryCalls <= max0 + 1

\* C3: toTry fails exactly K times and then succeeds, max >= K: next(true) is
\* called exactly once, next(false) never, toTry ran K + 1 times, K timers
\* were scheduled, and nothing is running or pending after next(true).
C3_SuccessAfterKFailures ==
    /\ falseResults <= max0 => nextFalse = 0
    /\ (nextTrue > 0 /\ falseResults <= max0) =>
          /\ nextTrue = 1
          /\ toTryCalls = falseResults + 1
          /\ Len(waits) = falseResults
          /\ pc = "done"

C3_Witness == nextTrue = 1 /\ falseResults = max0 /\ max0 >= 2

\* C4: the k-th delay handed to setTimeout is delay * 2^(k-1), delay being
\* the initial delay argument.
C4_DelaysDouble ==
    \A k \in 1..Len(waits) : waits[k] = delay0 * Pow2(k - 1)

C4_Witness == Len(waits) >= 3 /\ delay0 = MainDelay /\ waits[3] = 120000

\* C5: S3 variant: the steps of an attempt start in the order fetch, parse,
\* load, diff, save, notify, each after the previous one succeeded; load and
\* save start at most once; save starts only after a diff that reported a
\* change; notify starts only after the save of the same snapshot succeeded.
C5_StepOrder ==
    variant = "s3" =>
        /\ Len(steps) <= Len(Order)
        /\ \A i \in 1..Len(steps) : steps[i].op = Order[i]
        /\ \A i \in 1..(Len(steps) - 1) : steps[i].status = "ok"
        /\ Started(steps, "save") => newChanges
        /\ Started(steps, "notify") =>
              /\ steps[5].status = "ok"
              /\ steps[5].snap = steps[6].snap
              /\ steps[6].snap = floorPlans

C5_Witness ==
    variant = "s3" /\ Len(steps) = 6 /\ steps[6].status = "ok" /\ floorPlans # <<>>

\* C6: S3 variant: scrape resolves with a boolean, true exactly when no
\* executed step among fetch, parse, save and notify failed.
C6_ResultIffNoFailure ==
    (variant = "s3" /\ pc = "returned") =>
        /\ result \in BOOLEAN
        /\ result = ~Failed(steps, {"fetch", "parse", "save", "notify"})

C6_Witness ==
    /\ variant = "s3" /\ pc = "returned" /\ ~result
    /\ StepStatus(steps, "notify") = "fail"

\* the current attempt has diffed the snapshot the previous attempt parsed
RediffedSame == /\ prev.valid
                /\ Started(steps, "diff")
                /\ floorPlans = prev.floorPlans

\* C7: S3 variant: change detected, save succeeds, notify fails: the attempt
\* returns false, the next attempt that fetches the same snapshot detects the
\* change again and notifies again, and once the retry controller reports
\* success no persisted change is left without a successful notification
\* (stated as the claim has it).
C7_NotifyFailureRetried ==
    variant = "s3" =>
        /\ (pc = "returned" /\ StepStatus(steps, "notify") = "fail") => ~result
        /\ (RediffedSame /\ prev.saveOk /\ prev.notifyFailed) =>
              /\ newChanges
              /\ pc = "returned" => Started(steps, "notify")
        /\ (nextTrue > 0 /\ saves > 0) => JSONparse(store).value \in notified

\* C8 (a): a failed save makes the attempt return false without notifying and
\* leaves the persisted snapshot as it was.
SaveFailureStops ==
    (pc = "returned" /\ StepStatus(steps, "save") = "fail") =>
        /\ ~result
        /\ ~Started(steps, "notify")
        /\ store = storeAtStart

\* C8 as the claim has it: ... and the next attempt that fetches the same
\* snapshot detects the change again.
C8_SaveFailureRedetected ==
    variant = "s3" =>
        /\ SaveFailureStops
        /\ (RediffedSame /\ prev.saveFailed) => newChanges

\* C8, amended: ... and the next attempt that fetches the same snapshot
\* detects the change again, provided its load has the same outcome as the
\* failed attempt's load (both read the stored object, or both fall back to
\* the empty snapshot).
C8_SaveFailureRedetectedSameLoad ==
    variant = "s3" =>
        /\ SaveFailureStops
        /\ (RediffedSame /\ prev.saveFailed /\ loadOk = prev.loadOk) => newChanges

C8_Witness ==
    /\ variant = "s3" /\ RediffedSame /\ prev.saveFailed /\ loadOk = prev.loadOk
    /\ loadOk /\ newChanges /\ store = storeAtStart

\* C9: scrape.js: scrape returns true for an attempt that detected a change
\* only if the write of floor-plans.json and the SNS publish it started have
\* both completed successfully; a failed write or publish makes it return
\* false (stated as the claim has it).
C9_LocalTrueOnlyAfterWriteAndPublish ==
    variant = "local" =>
        /\ (pc \in {"returned", "done"} /\ result /\ newChanges) =>
              (writeState = "ok" /\ publishState = "ok")
        /\ (writeState = "fail" \/ publishState = "fail") => ~result

\* C10: S3 variant: getOldFloorPlans never fails: a missing object, a
\* transport error or a body that is no JSON gives the empty snapshot, the
\* attempt goes on to the diff with it, and scrape does not return false
\* because of it.
C10_LoadNeverFails ==
    variant = "s3" =>
        /\ StepStatus(steps, "load") # "fail"
        /\ (StepStatus(steps, "load") = "ok" /\ ~loadOk) =>
              /\ oldFloorPlans = <<>>
              /\ Started(steps, "diff")
              /\ newChanges = (floorPlans # <<>>)
        /\ (pc = "returned" /\ ~result) =>
              \E i \in 1..Len(steps) : steps[i].op # "load" /\ steps[i].status = "fail"

C10_Witness ==
    /\ variant = "s3" /\ pc = "returned" /\ result /\ ~loadOk
    /\ StepStatus(steps, "load") = "ok" /\ store = Garbage /\ floorPlans = <<>>

\* the snapshot the current attempt parsed differs from the one it loaded
DiffersFromLoaded == Started(steps, "diff") /\ floorPlans # oldFloorPlans

\* C11: S3 variant: fetch, parse, save and notify all succeed and the parsed
\* snapshot differs from the loaded one (an empty loaded one included): after
\* the attempt the persisted snapshot is the parsed one, notify was invoked
\* exactly once, with the message built from the parsed snapshot, and scrape
\* returns true.
C11_ChangePersistedAndNotified ==
    (/\ variant = "s3"
     /\ pc = "returned"
     /\ DiffersFromLoaded
     /\ ~Failed(steps, {"fetch", "parse", "save", "notify"})) =>
        /\ store = JSONstringify(floorPlans)
        /\ JSONparse(store).value = floorPlans
        /\ Cardinality({i \in 1..Len(steps) : steps[i].op = "notify"}) = 1
        /\ StepStatus(steps, "notify") = "ok"
        /\ message = formatFloorPlansForSMS(floorPlans)
        /\ floorPlans \in notified
        /\ result

C11_Witness ==
    /\ variant = "s3" /\ pc = "returned" /\ result
    /\ oldFloorPlans = <<>> /\ floorPlans # <<>> /\ storeAtStart = Missing
    /\ StepStatus(steps, "notify") = "ok" /\ store = JSONstringify(floorPlans)

\* C12 as the claim has it: S3 variant: save and notify are invoked in an
\* attempt exactly when the parsed snapshot is not equal, order-sensitively,
\* to the loaded one; when they are equal neither is invoked, the persisted
\* snapshot is unchanged and the attempt returns true.
C12_SaveAndNotifyIffChanged ==
    (variant = "s3" /\ pc = "returned" /\ Started(steps, "diff")) =>
        /\ (Started(steps, "save") /\ Started(steps, "notify")) <=> floorPlans # oldFloorPlans
        /\ floorPlans = oldFloorPlans =>
              /\ ~Started(steps, "save")
              /\ ~Started(steps, "notify")
              /\ store = storeAtStart
              /\ result

\* C12, amended: save is invoked exactly when the snapshots differ, and
\* notify exactly when they differ and the save succeeded; when they are
\* equal neither is invoked, the persisted snapshot is unchanged and the
\* attempt returns true.
C12_SaveIffChangedNotifyIffSaved ==
    (variant = "s3" /\ pc = "returned" /\ Started(steps, "diff")) =>
        /\ Started(steps, "save") <=> floorPlans # oldFloorPlans
        /\ Started(steps, "notify") <=>
              (floorPlans # oldFloorPlans /\ StepStatus(steps, "save") = "ok")
        /\ floorPlans = oldFloorPlans =>
              /\ ~Started(steps, "save")
              /\ ~Started(steps, "notify")
              /\ store = storeAtStart
              /\ result

\* the two snapshots hold the same units of the same plans in another order
C12_Witness ==
    /\ variant = "s3" /\ pc = "returned" /\ Started(steps, "notify")
    /\ floorPlans = parseFloorPlans(DocTwoUnitsSwapped).value
    /\ oldFloorPlans = parseFloorPlans(DocTwoUnits).value

C12_WitnessEqual ==
    /\ variant = "s3" /\ pc = "returned" /\ result /\ loadOk
    /\ floorPlans = oldFloorPlans /\ floorPlans # <<>>

\* C13: parseFloorPlanAvailability returns null when the block's text holds
\* "No Plans Currently Available" or the block has fewer than 2 unit rows;
\* otherwise, for 1 template row and N >= 1 data rows, it returns exactly N
\* entries, the i-th built from row i, in row order (row 0 gives no entry).
C13_ParseAvailability ==
    IF fpaArg.noPlansText \/ Len(fpaArg.rows) < 2
    THEN fpaRes = Null
    ELSE /\ ~fpaRes.isNull
         /\ Len(fpaRes.units) = Len(fpaArg.rows) - 1
         /\ \A i \in 1..(Len(fpaArg.rows) - 1) :
               /\ fpaRes.units[i].unit = fpaArg.rows[i + 1].unit
               /\ fpaRes.units[i].available_on = fpaArg.rows[i + 1].date
               /\ fpaRes.units[i].price = fpaArg.rows[i + 1].price

C13_Witness ==
    /\ ~fpaArg.noPlansText /\ Len(fpaArg.rows) = 4
    /\ fpaArg.rows[1] # TemplateRow /\ fpaArg.rows[2] # fpaArg.rows[3]
    /\ Len(fpaRes.units) = 3

\* a number below 1000 as three digits
Pad3(n) == <<DigitChars[(n \div 100) + 1], DigitChars[((n \div 10) % 10) + 1],
             DigitChars[(n % 10) + 1]>>

\* the decimal digits of n grouped in threes from the right with commas
RECURSIVE Grouped(_)
Grouped(n) == IF n < 1000 THEN Digits(n)
              ELSE Grouped(n \div 1000) \o <<",">> \o Pad3(n % 1000)

\* C14: formatMoney of a non-negative integer price is its decimal digits
\* grouped in threes from the right with commas (stated as the claim has it;
\* the code inserts no comma).
C14_GroupsThousands ==
    moneyRes # <<>> => moneyRes = Grouped(moneyArg)

\* the lines of the blocks, plan by plan
RECURSIVE ExpectedBlocks(_)
ExpectedBlocks(fps) ==
    IF fps = <<>> THEN <<>>
    ELSE (IF Head(fps).availability.isNull THEN <<>>
          ELSE <<HeaderLine(Head(fps))>>
                 \o [i \in 1..Len(Head(fps).availability.units) |->
                       UnitLine(Head(fps).availability.units[i])]
                 \o <<EmptyLine>>)
         \o ExpectedBlocks(Tail(fps))

RECURSIVE TotalUnits(_)
TotalUnits(fps) ==
    IF fps = <<>> THEN 0
    ELSE (IF Head(fps).availability.isNull THEN 0
          ELSE Len(Head(fps).availability.units))
         + TotalUnits(Tail(fps))

IsUnitLine(line) == line # <<>> /\ line[1] = "Unit #"

\* C15: formatFloorPlansForSMS emits (after the newline the message starts
\* with), in snapshot order, one block per floor plan with non-null
\* availability (header line, one line per unit in unit order, blank line),
\* nothing for a plan with null availability; the unit lines are as many as
\* the units of the plans with non-null availability.
C15_MessageBlocks ==
    smsRes # <<>> =>
        /\ Head(smsRes) = EmptyLine
        /\ Tail(smsRes) = ExpectedBlocks(smsArg)
        /\ Cardinality({i \in 1..Len(smsRes) : IsUnitLine(smsRes[i])}) = TotalUnits(smsArg)
        /\ Cardinality({i \in 1..Len(smsRes) : smsRes[i] = EmptyLine})
             = 1 + Cardinality({i \in 1..Len(smsArg) : ~smsArg[i].availability.isNull})

C15_Witness ==
    /\ Len(smsArg) = 3
    /\ ~smsArg[1].availability.isNull
    /\ smsArg[2].availability.isNull
    /\ Len(smsArg[3].availability.units) = 2
    /\ Len(smsRes) = 1 + 3 + 4

\* C16: during one call of exponentialBackoff at most one execution of toTry
\* is in progress, and a retry timer is pending only while none is: two
\* attempts never overlap.
C16_OneAttemptAtATime ==
    /\ running \in {0, 1}
    /\ timers \in {0, 1}
    /\ timers > 0 => running = 0
    /\ running = 1 <=> pc \in {"axios", "s3get", "s3put", "sns"}

C16_Witness == timers = 1 /\ running = 0 /\ toTryCalls >= 3

\* C17: next(false) is called only after toTry has returned false at least
\* max + 1 times; while the remaining-attempts counter is above zero a failed
\* attempt does not trigger next(false).
C17_NextFalseOnlyWhenExhausted ==
    /\ nextFalse > 0 => falseResults >= max0 + 1
    /\ max > 0 => nextFalse = 0
    /\ max = max0 - (toTryCalls - 1) \/ toTryCalls = 0

C17_Witness == nextFalse = 1 /\ falseResults = max0 + 1 /\ max0 >= 2 /\ max = 0

\* C18: one call of exponentialBackoff never reports both outcomes: once
\* next(false) has been called, next(true) is not called and toTry is not
\* invoked again (stated as the claim has it; after next(false) the code
\* schedules the next retry all the same).
C18_NothingAfterNextFalse ==
    nextFalse > 0 => (nextTrue = 0 /\ running = 0 /\ toTryCalls = falseResults)

\* C19: S3 variant, no other writer of the store: whenever notify is invoked
\* with the message of a snapshot, the persisted snapshot is that snapshot.
C19_NotifiedSnapshotIsPersisted ==
    (variant = "s3" /\ Started(steps, "notify")) =>
        /\ message = formatFloorPlansForSMS(steps[Len(steps)].snap)
        /\ store = JSONstringify(steps[Len(steps)].snap)
        /\ JSONparse(store).value = floorPlans

C19_Witness ==
    /\ variant = "s3" /\ pc = "sns" /\ store # storeAtStart
    /\ floorPlans = parseFloorPlans(DocTwoUnits).value

\* C20: S3 variant: one handler invocation completes at most one successful
\* notify: after a notify has succeeded no later attempt is started.
C20_AtMostOneSuccessfulNotify ==
    (variant = "s3" /\ notified # {}) =>
        /\ pc \in {"returned", "done"}
        /\ StepStatus(steps, "notify") = "ok"
        /\ notified = {floorPlans}
        /\ result
        /\ timers = 0

C20_Witness ==
    variant = "s3" /\ pc = "done" /\ notified # {} /\ toTryCalls >= 3

====
